---- MODULE Spec2Model ----
(***************************************************************************)
(* CTA file-naming audit (src/app.py): the filename grammar engine         *)
(* audit_filename with its leaf normalizers, and the row loop of the batch *)
(* driver write_results_inline_dynamic.                                    *)
(*                                                                         *)
(* File names, tokens and notes are TLA+ strings; TLC evaluates Len,       *)
(* SubSeq and \o on strings, so a Python slice s[a:b] is SubSeq(s,a+1,b).  *)
(* Every regular expression of the source is written out as the finite     *)
(* scan it performs.  The em dash of three note texts is written "--"      *)
(* because the module text is ASCII.                                       *)
(***************************************************************************)
EXTENDS Integers, Sequences, FiniteSets, TLC

VARIABLES
    original_name,   \* the argument of the running call of audit_filename
    pc,              \* where control is: in audit_filename, or in the row loop
    fr,              \* the locals of audit_filename and of its closure finalize
    result,          \* what audit_filename returned
    previous,        \* the result of the audit before, when a suggestion is audited again
    pass,            \* how many times a suggestion has been audited again
    rows,            \* the sheet: per data row the file-name cell and the company cell
    r,               \* the row the loop of write_results_inline_dynamic is at
    cells,           \* per data row, the four audit cells
    stats,           \* the overall counters
    by_company       \* the counters per company

vars == <<original_name, pc, fr, result, previous, pass, rows, r, cells, stats, by_company>>
auditVars == <<original_name, pc, fr, result, previous, pass>>
driverVars == <<rows, r, cells, stats, by_company>>

\* a local variable: F applied to the value, which is computed once however
\* often F uses it
With(val, F(_)) == F(val)

-----------------------------------------------------------------------------
(* Characters and slices *)

\* s[a-1:b] of Python: indices outside the string are clamped, never an error
Slice(s, a, b) ==
    LET lo == IF a < 1 THEN 1 ELSE a
        hi == IF b > Len(s) THEN Len(s) ELSE b
    IN  IF lo > hi THEN "" ELSE SubSeq(s, lo, hi)
Ch(s, i) == Slice(s, i, i)
From(s, i) == Slice(s, i, Len(s))
Upto(s, n) == Slice(s, 1, n)
CharsOf(s) == {Ch(s, i) : i \in 1..Len(s)}

LowerAlphabet == "abcdefghijklmnopqrstuvwxyz"
UpperAlphabet == "ABCDEFGHIJKLMNOPQRSTUVWXYZ"
Digit == CharsOf("0123456789")
UpperCh == CharsOf(UpperAlphabet)
LowerChars == CharsOf(LowerAlphabet)
AlnumDash == Digit \cup UpperCh \cup LowerChars \cup {"-"}   \* [A-Za-z0-9\-]
DigitDash == Digit \cup {"-"}                                \* [0-9\-]
Whitespace == {" ", "\t"}                                    \* \s
RevSep == {"_", "-", "."} \cup Whitespace                    \* [_\-\.\s]
RevDigit == Digit \cup {"O", "o"}                            \* [0-9Oo]
ExtSep == {".", "_", "-"}                                    \* [._-]
RStripSet == {"_", "-", " ", "."}                            \* rstrip("_- .")

ToLower == [c \in UpperCh |-> Ch(LowerAlphabet, CHOOSE i \in 1..26 : Ch(UpperAlphabet, i) = c)]
ToUpper == [c \in LowerChars |-> Ch(UpperAlphabet, CHOOSE i \in 1..26 : Ch(LowerAlphabet, i) = c)]
LowerOf(c) == IF c \in UpperCh THEN ToLower[c] ELSE c
UpperOf(c) == IF c \in LowerChars THEN ToUpper[c] ELSE c
DigitVal == [c \in Digit |-> (CHOOSE i \in 1..10 : Ch("0123456789", i) = c) - 1]

StartsWith(s, p) == Len(s) >= Len(p) /\ Upto(s, Len(p)) = p
EndsWith(s, p) == Len(s) >= Len(p) /\ From(s, Len(s) - Len(p) + 1) = p
HasChar(s, c) == \E i \in 1..Len(s) : Ch(s, i) = c
HasSub(s, p) == \E i \in 1..(Len(s) - Len(p) + 1) : Slice(s, i, i + Len(p) - 1) = p
AllIn(s, S) == \A i \in 1..Len(s) : Ch(s, i) \in S
InNotes(notes, n) == \E i \in 1..Len(notes) : notes[i] = n

\* s matches e at position p ignoring case (e is lower case)
MatchesLowerAt(s, p, e) ==
    /\ p >= 1
    /\ p + Len(e) - 1 <= Len(s)
    /\ \A j \in 1..Len(e) : LowerOf(Ch(s, p + j - 1)) = Ch(e, j)

\* the least / greatest index in lo..hi that satisfies P, 0 when none does
FirstIdx(P(_), lo, hi) ==
    LET M == {j \in lo..hi : P(j)} IN
    IF M = {} THEN 0 ELSE CHOOSE j \in M : \A k \in M : j <= k
LastIdx(P(_), lo, hi) ==
    LET M == {j \in lo..hi : P(j)} IN
    IF M = {} THEN 0 ELSE CHOOSE j \in M : \A k \in M : j >= k

\* length of the longest run of characters of S starting at i / ending at j
RunFwd(s, i, S) ==
    IF i < 1 \/ i > Len(s) THEN 0
    ELSE LET stop == FirstIdx(LAMBDA j : Ch(s, j) \notin S, i, Len(s)) IN
         IF stop = 0 THEN Len(s) - i + 1 ELSE stop - i
RunBack(s, j, S) ==
    IF j < 1 \/ j > Len(s) THEN 0
    ELSE j - LastIdx(LAMBDA k : Ch(s, k) \notin S, 1, j)

LStrip(s, S) == From(s, RunFwd(s, 1, S) + 1)
RStrip(s, S) == Upto(s, Len(s) - RunBack(s, Len(s), S))
Strip(s) == LStrip(RStrip(s, Whitespace), Whitespace)          \* str.strip()

\* the characters lo..hi of s, each replaced by f of it (halving keeps the
\* evaluation shallow)
RECURSIVE MapChars(_, _, _, _)
MapChars(f(_), s, lo, hi) ==
    IF lo > hi THEN ""
    ELSE IF lo = hi THEN f(Ch(s, lo))
    ELSE LET mid == (lo + hi) \div 2 IN
         MapChars(f, s, lo, mid) \o MapChars(f, s, mid + 1, hi)

\* keep the characters of S / drop the characters of S
Keep(s, S) == MapChars(LAMBDA c : IF c \in S THEN c ELSE "", s, 1, Len(s))
Drop(s, S) == MapChars(LAMBDA c : IF c \in S THEN "" ELSE c, s, 1, Len(s))
\* str.replace(c, w) for a one-character c
Replace(s, c, w) == MapChars(LAMBDA x : IF x = c THEN w ELSE x, s, 1, Len(s))

\* re.sub(S{2,}, w, s) when two = TRUE, re.sub(S+, w, s) otherwise, from i on:
\* one step per run replaced
RECURSIVE CollapseFrom(_, _, _, _, _)
CollapseFrom(s, S, w, two, i) ==
    With(FirstIdx(LAMBDA k : RunFwd(s, k, S) >= (IF two THEN 2 ELSE 1), i, Len(s)), LAMBDA j :
    IF j = 0 THEN From(s, i)
    ELSE Slice(s, i, j - 1) \o w \o CollapseFrom(s, S, w, two, j + RunFwd(s, j, S)))

MULTI_UNDERS_sub(s) == CollapseFrom(s, {"_"}, "_", TRUE, 1)    \* MULTI_UNDERS.sub("_", s)
TRAILING_UNDERS_sub(s) == RStrip(s, {"_"})                     \* TRAILING_UNDERS.sub("", s)

\* index of the first c at or after i / the last c at or before j, 0 when none
FindFrom(s, c, i) == FirstIdx(LAMBDA k : Ch(s, k) = c, i, Len(s))
RFindFrom(s, c, j) == LastIdx(LAMBDA k : Ch(s, k) = c, 1, j)

\* [t for t in s.split("_") if t != ""]
RECURSIVE SplitTokens(_)
SplitTokens(s) ==
    IF s = "" THEN <<>>
    ELSE With(FindFrom(s, "_", 1), LAMBDA k :
         IF k = 0 THEN <<s>>
         ELSE IF k = 1 THEN SplitTokens(From(s, 2))
         ELSE <<Upto(s, k - 1)>> \o SplitTokens(From(s, k + 1)))

\* "_".join(toks[i:]) with i counted from 1
RECURSIVE JoinFrom(_, _, _)
JoinFrom(toks, sep, i) ==
    IF i > Len(toks) THEN ""
    ELSE IF i = Len(toks) THEN toks[i]
    ELSE toks[i] \o sep \o JoinFrom(toks, sep, i + 1)

CountChar(s, c) == Cardinality({i \in 1..Len(s) : Ch(s, i) = c})

-----------------------------------------------------------------------------
(* Constants of the rule table *)

MAX_CHARS_TOTAL == 64

IGNORE_PREFIXES == <<"I-PAY", "PCO", "IDR", "NCR", "RFI", "SMTL", "UOR">>

STANDARD_PREFIXES ==
    {"COR","LG","MA","MM","PN","PR","REF","RP","SCH","GA","DA","DES","DV","DW","GIS","IDR",
     "PH","SOV","BL","SV","TR","VD","IGA","ORD","OC","RE","ROW","SSC","SAF","NCR","TX","UM",
     "FA","FC","SC","CL","PL","SP","SF","WR"}
REQUIRES_CSI == {"CA","CT","EN","IR","IC","MD","MT","OM","PD","SM","SD"}
REQUIRES_ID_ANY ==
    {"SOP","TF","ATP","BR","CF","CS","COST","ES","LOE","FVO","PIF","PMP","PPS","PRO","LIQ",
     "RFP","CN","NTP","SOW","PT","AU"}
REQUIRES_ID_DIGITS_DASHES == {"PE","AEA","CO","NOC","CBL","DL","FM","PO","LNTP","CI","PA"}

\* ID_LABEL.get(prefix, "ID")
ID_LABEL(prefix) ==
    CASE prefix \in {"CN", "NTP", "SOW"} -> "ContractNumber"
      [] prefix = "PT" -> "Permit-ID"
      [] prefix = "SOP" -> "SOP-ID"
      [] prefix = "TF" -> "FormID"
      [] prefix \in {"ATP","BR","CF","CS","COST","ES","LOE","FVO","PIF","PMP","PPS","PRO",
                     "LIQ","RFP"} -> "ProjectID"
      [] prefix = "PE" -> "EvaluationNumber"
      [] prefix = "AEA" -> "AllowanceNumber"
      [] prefix = "CO" -> "ChangeOrder-Number"
      [] prefix = "NOC" -> "ClaimNumber"
      [] prefix \in {"CBL", "DL"} -> "BulletinNumber"
      [] prefix = "FM" -> "FieldMemo-ID"
      [] prefix = "PO" -> "ProceedOrder-Number"
      [] prefix = "LNTP" -> "OrderNumber"
      [] prefix \in {"CI", "PA"} -> "InvoiceNumber"
      [] prefix = "AU" -> "Audit-ID"
      [] prefix = "QA" -> "QMS-ID"
      [] OTHER -> "ID"

\* the set with PostScript added, "ps" next to "eps": a faulty variant of
\* EXT_TOKENS, in which one token ends with another
EXT_TOKENS_with_ps ==
    {"pdf","doc","docx","xls","xlsx","ppt","pptx",
     "jpg","jpeg","png","tif","tiff","gif","bmp","heic",
     "dwg","rvt","csv","txt","rtf","zip","msg","eml","ps","eps"}

EXT_TOKENS ==
    {"pdf","doc","docx","xls","xlsx","ppt","pptx",
     "jpg","jpeg","png","tif","tiff","gif","bmp","heic",
     "dwg","rvt","csv","txt","rtf","zip","msg","eml"}

TERMINAL_NOTE == "Does not follow CTA file naming convention."

-----------------------------------------------------------------------------
(* Date normalizer *)

RECURSIVE StrToNat(_)
StrToNat(s) ==
    IF s = "" THEN 0 ELSE 10 * StrToNat(Upto(s, Len(s) - 1)) + DigitVal[Ch(s, Len(s))]

\* f"{int(x):02d}" for a string x of one or two digits
Pad2(x) == IF Len(x) = 1 THEN "0" \o x ELSE x

IsLeap(y) == (y % 4 = 0 /\ y % 100 # 0) \/ y % 400 = 0
DaysIn(y, m) ==
    IF m = 2 THEN (IF IsLeap(y) THEN 29 ELSE 28)
    ELSE IF m \in {4, 6, 9, 11} THEN 30 ELSE 31
\* datetime.date(y, m, d) does not raise
ValidDate(y, m, d) ==
    /\ y >= 1 /\ y <= 9999
    /\ m >= 1 /\ m <= 12
    /\ d >= 1 /\ d <= DaysIn(y, m)

NoDate == [d |-> "", ok |-> FALSE, note |-> ""]

try_normalize_date(tok) ==
    With(Strip(tok), LAMBDA s :
    With(RunFwd(s, 1, Digit), LAMBDA a :
    With(RunFwd(s, a + 2, Digit), LAMBDA b :
    With(RunFwd(s, 6, Digit), LAMBDA m :
    LET n == Len(s) IN
    IF s = "" THEN NoDate
    ELSE IF n = 8 /\ AllIn(s, Digit)                                  \* ^\d{8}$
         THEN [d |-> s, ok |-> TRUE, note |-> ""]
    ELSE IF /\ n = 10 /\ Ch(s, 5) = "-" /\ Ch(s, 8) = "-"             \* ^(\d{4})-(\d{2})-(\d{2})$
            /\ AllIn(Upto(s, 4) \o Slice(s, 6, 7) \o Slice(s, 9, 10), Digit)
         THEN [d |-> Upto(s, 4) \o Slice(s, 6, 7) \o Slice(s, 9, 10), ok |-> TRUE,
               note |-> "Normalized date from YYYY-MM-DD"]
    ELSE IF /\ a \in {1, 2} /\ Ch(s, a + 1) = "/"                     \* ^(\d{1,2})/(\d{1,2})/(\d{4})$
            /\ b \in {1, 2} /\ Ch(s, a + b + 2) = "/"
            /\ n = a + b + 6 /\ AllIn(From(s, a + b + 3), Digit)
         THEN [d |-> From(s, a + b + 3) \o Pad2(Upto(s, a)) \o Pad2(Slice(s, a + 2, a + b + 1)),
               ok |-> TRUE, note |-> "Normalized date from M/D/YYYY"]
    ELSE IF /\ a = 4 /\ Ch(s, 5) = "/"                                \* ^(\d{4})/(\d{1,2})/(\d{1,2})$
            /\ m \in {1, 2}
            /\ Ch(s, 6 + m) = "/"
            /\ n - (6 + m) \in {1, 2}
            /\ AllIn(From(s, 7 + m), Digit)
         THEN [d |-> Upto(s, 4) \o Pad2(Slice(s, 6, 5 + m)) \o Pad2(From(s, 7 + m)),
               ok |-> TRUE, note |-> "Normalized date from YYYY/M/D"]
    ELSE IF /\ n = 9 /\ AllIn(s, Digit) /\ Ch(s, 5) = "0"             \* ^(\d{4})0(\d{2})(\d{2})$
            /\ ValidDate(StrToNat(Upto(s, 4)), StrToNat(Slice(s, 6, 7)),
                         StrToNat(Slice(s, 8, 9)))
         THEN [d |-> Upto(s, 4) \o Slice(s, 6, 9), ok |-> TRUE,
               note |-> "Normalized date from malformed token (dropped stray 0)."]
    ELSE NoDate))))

-----------------------------------------------------------------------------
(* Structured-code ("CSI") normalizer *)

NoCsi == [csi |-> "", ok |-> FALSE, note |-> ""]

\* ^\d{2}-\d{2}-\d{2}$ or ^\d{2}-\d{2}-\d{2}-\d{2}$
CanonicalCsi(t) ==
    /\ Len(t) \in {8, 11}
    /\ \A i \in 1..Len(t) : IF i % 3 = 0 THEN Ch(t, i) = "-" ELSE Ch(t, i) \in Digit

Csi6(g) == Slice(g, 1, 2) \o "-" \o Slice(g, 3, 4) \o "-" \o Slice(g, 5, 6)
Csi8(g) == Csi6(g) \o "-" \o Slice(g, 7, 8)

normalize_csi(token) ==
    With(Strip(token), LAMBDA t :
    With(Keep(t, Digit), LAMBDA digits :
    IF t = "" THEN NoCsi
    ELSE IF CanonicalCsi(t) THEN [csi |-> t, ok |-> TRUE, note |-> ""]
    ELSE IF Len(digits) = 6
         THEN [csi |-> Csi6(digits), ok |-> TRUE, note |-> "Auto-formatted CSI from 6 digits"]
    ELSE IF Len(digits) = 8
         THEN [csi |-> Csi8(digits), ok |-> TRUE, note |-> "Auto-formatted CSI from 8 digits"]
    ELSE IF HasChar(t, "-") /\ Len(digits) \in {6, 8}
         THEN [csi |-> IF Len(digits) = 6 THEN Csi6(digits) ELSE Csi8(digits), ok |-> TRUE,
               note |-> "Corrected malformed CSI hyphenation"]
    ELSE NoCsi))

-----------------------------------------------------------------------------
(* Title and identifier sanitizers.  A helper that appends to the notes    *)
(* list returns the record [s, notes].                                     *)

\* the extension token of the alternation that matches at p with the lookahead
\* (?=$|[._-]) satisfied; no two tokens can match at the same place
ExtTokensAt(s, p) ==
    {e \in EXT_TOKENS : /\ MatchesLowerAt(s, p, e)
                        /\ (p + Len(e) > Len(s) \/ Ch(s, p + Len(e)) \in ExtSep)}
ExtLenAt(s, p) ==
    With(ExtTokensAt(s, p), LAMBDA T : IF T = {} THEN 0 ELSE Len(CHOOSE e \in T : TRUE))

\* re.sub(r'(?i)(?:^|[._-])(pdf|docx?|...)(?=$|[._-])', '', s), scanning from i
\* length consumed by a match that starts at i: the token itself at the start
\* of the text, a separator and the token elsewhere; 0 when there is no match
ExtMatchLen(s, i) ==
    With(ExtLenAt(s, 1), LAMBDA atStart :
    With(ExtLenAt(s, i + 1), LAMBDA afterSep :
    IF i = 1 /\ atStart > 0 THEN atStart
    ELSE IF Ch(s, i) \in ExtSep /\ afterSep > 0 THEN 1 + afterSep
    ELSE 0))
RECURSIVE ExtSubFrom(_, _)
ExtSubFrom(s, i) ==
    With(FirstIdx(LAMBDA k : ExtMatchLen(s, k) > 0, i, Len(s)), LAMBDA j :
    IF j = 0 THEN From(s, i)
    ELSE Slice(s, i, j - 1) \o ExtSubFrom(s, j + ExtMatchLen(s, j)))

\* the tokens of EXT_TOKENS the lower-cased text ends with; the loop removes the
\* first one its iteration over the set meets
EndTokens(s) == {e \in EXT_TOKENS : MatchesLowerAt(s, Len(s) - Len(e) + 1, e)}
DropEndToken(s) ==
    With(EndTokens(s), LAMBDA T :
    IF T = {} THEN s ELSE Upto(s, Len(s) - Len(CHOOSE e \in T : TRUE)))

strip_spurious_extensions(text, notes) ==
    With(DropEndToken(ExtSubFrom(text, 1)), LAMBDA s2 :
    With(CollapseFrom(s2, ExtSep, "-", TRUE, 1), LAMBDA s3 :         \* [._-]{2,} -> '-'
    [s |-> RStrip(LStrip(s3, ExtSep), ExtSep),
     notes |-> IF s2 # text
               THEN Append(notes, "Removed extra extension token from title.")
               ELSE notes]))

\* the character class of line 174 with the period let through: a faulty
\* variant of sanitize_title
sanitize_title_keeps_period(raw, notes) ==
    With(strip_spurious_extensions(raw, notes), LAMBDA e1 :
    With(IF HasChar(e1.s, "&")
         THEN [s |-> Replace(e1.s, "&", "and"),
               notes |-> Append(e1.notes, "Replaced '&' with 'and' in title.")]
         ELSE e1, LAMBDA a :
    With(IF HasChar(a.s, " ")
         THEN [s |-> Drop(a.s, Whitespace),
               notes |-> Append(a.notes, "Removed spaces from title.")]
         ELSE a, LAMBDA b :
    With(IF HasChar(b.s, "_")
         THEN [s |-> Drop(b.s, {"_"}),
               notes |-> Append(b.notes, "Removed internal underscores from title.")]
         ELSE b, LAMBDA c :
    With(Keep(c.s, AlnumDash \cup {"."}), LAMBDA s2 :
    With(IF s2 # c.s
         THEN [s |-> s2, notes |-> Append(c.notes, "Removed special characters from title.")]
         ELSE c, LAMBDA d :
    With(strip_spurious_extensions(d.s, d.notes), LAMBDA e2 :
    IF e2.s # raw /\ ~InNotes(e2.notes, "Normalized title.")
    THEN [s |-> e2.s, notes |-> Append(e2.notes, "Normalized title.")]
    ELSE e2)))))))

sanitize_title(raw, notes) ==
    With(strip_spurious_extensions(raw, notes), LAMBDA e1 :
    With(IF HasChar(e1.s, "&")
         THEN [s |-> Replace(e1.s, "&", "and"),
               notes |-> Append(e1.notes, "Replaced '&' with 'and' in title.")]
         ELSE e1, LAMBDA a :
    With(IF HasChar(a.s, " ")
         THEN [s |-> Drop(a.s, Whitespace),
               notes |-> Append(a.notes, "Removed spaces from title.")]
         ELSE a, LAMBDA b :
    With(IF HasChar(b.s, "_")
         THEN [s |-> Drop(b.s, {"_"}),
               notes |-> Append(b.notes, "Removed internal underscores from title.")]
         ELSE b, LAMBDA c :
    With(Keep(c.s, AlnumDash), LAMBDA s2 :
    With(IF s2 # c.s
         THEN [s |-> s2, notes |-> Append(c.notes, "Removed special characters from title.")]
         ELSE c, LAMBDA d :
    With(strip_spurious_extensions(d.s, d.notes), LAMBDA e2 :
    IF e2.s # raw /\ ~InNotes(e2.notes, "Normalized title.")
    THEN [s |-> e2.s, notes |-> Append(e2.notes, "Normalized title.")]
    ELSE e2)))))))

sanitize_id_any(raw, notes, label) ==
    With(IF HasChar(raw, " ")
         THEN [s |-> Drop(raw, Whitespace),
               notes |-> Append(notes, "Removed spaces from " \o label \o ".")]
         ELSE [s |-> raw, notes |-> notes], LAMBDA a :
    With(IF HasChar(a.s, "_")
         THEN [s |-> Drop(a.s, {"_"}),
               notes |-> Append(a.notes, "Removed underscores from " \o label \o ".")]
         ELSE a, LAMBDA b :
    With(Keep(b.s, AlnumDash), LAMBDA s2 :
    IF s2 # b.s
    THEN [s |-> s2, notes |-> Append(b.notes, "Removed special characters from " \o label \o ".")]
    ELSE [s |-> s2, notes |-> b.notes])))

\* returns ok = FALSE for None
sanitize_id_digits_dashes(raw, notes, label) ==
    With(Drop(raw, Whitespace), LAMBDA cleaned0 :
    With(IF HasChar(cleaned0, "_")
         THEN [s |-> Drop(cleaned0, {"_"}),
               notes |-> Append(notes, "Removed underscores from " \o label \o ".")]
         ELSE [s |-> cleaned0, notes |-> notes], LAMBDA a :
    With(Keep(a.s, DigitDash), LAMBDA digits_dashes :
    IF digits_dashes # "" /\ Ch(digits_dashes, 1) \in Digit
    THEN [s |-> digits_dashes, ok |-> TRUE,
          notes |-> IF digits_dashes # raw
                    THEN Append(a.notes, "Corrected " \o label \o " to digits/dashes only.")
                    ELSE a.notes]
    ELSE [s |-> "", ok |-> FALSE, notes |-> a.notes])))

-----------------------------------------------------------------------------
(* Revision extractor *)

\* "Rev" in any case at position p
RevAt(s, p) == MatchesLowerAt(s, p, "rev")

NoMatch == [found |-> FALSE, start |-> 0, stop |-> 0, digits |-> ""]

\* <sep*> Rev <sep*> <1-2 of digitSet> ending exactly at position n of s, as a
\* search from the left finds it: the digits are the whole final run, the
\* separators before Rev are taken as far left as they go
RevSuffixMatch(s, n, digitSet, leading) ==
    With(RunBack(s, n, digitSet), LAMBDA d :
    With(n - d - RunBack(s, n - d, RevSep), LAMBDA e :              \* position of the 'v'
    IF d \in {1, 2} /\ RevAt(s, e - 2)
    THEN [found |-> TRUE,
          start |-> e - 2 - (IF leading THEN RunBack(s, e - 3, RevSep) ELSE 0),
          stop |-> n, digits |-> Slice(s, n - d + 1, n)]
    ELSE NoMatch))

\* REV_ANY_INFIX.search(s): [_\-\.\s]*Rev[_\-\.\s]*([0-9Oo]{1,2})$ ignoring case
REV_ANY_INFIX_search(s) == RevSuffixMatch(s, Len(s), RevDigit, TRUE)

\* CANON_REV_SUFFIX.search(s): _Rev(\d{1,2})$
CANON_REV_SUFFIX_search(s) ==
    With(RunBack(s, Len(s), Digit), LAMBDA d :
    LET st == Len(s) - d - 3 IN
    IF d \in {1, 2} /\ st >= 1 /\ Slice(s, st, st + 3) = "_Rev"
    THEN [found |-> TRUE, start |-> st, stop |-> Len(s), digits |-> From(s, Len(s) - d + 1)]
    ELSE NoMatch)

\* re.search(r"(?i)Rev[._\-\s]*[0-9Oo]{1,2}\.$", s)
TrailingDotAfterRev(s) ==
    /\ s # "" /\ Ch(s, Len(s)) = "."
    /\ RevSuffixMatch(s, Len(s) - 1, RevDigit, FALSE).found

\* EMBEDDED_REV at position i:
\* (?i)(?:^|[._\-\s])Rev[._\-\s]*([0-9Oo]{1,2})(?=$|[._\-\s])
EMBEDDED_REV_at(s, i) ==
    With(IF i = 1 /\ RevAt(s, 1) THEN 1
         ELSE IF Ch(s, i) \in RevSep /\ RevAt(s, i + 1) THEN i + 1
         ELSE 0, LAMBDA p :
    With(p + 3 + RunFwd(s, p + 3, RevSep), LAMBDA q :                \* first digit
    With(RunFwd(s, q, RevDigit), LAMBDA d :
    IF p > 0 /\ d \in {1, 2} /\ (q + d > Len(s) \/ Ch(s, q + d) \in RevSep)
    THEN [found |-> TRUE, start |-> i, stop |-> q + d - 1, digits |-> Slice(s, q, q + d - 1)]
    ELSE NoMatch)))

\* ORPHAN_EMBEDDED_REV at position i: (?i)(?:^|[._\-\s])Rev(?=$|[._\-\s])
ORPHAN_EMBEDDED_REV_at(s, i) ==
    With(IF i = 1 /\ RevAt(s, 1) THEN 1
         ELSE IF Ch(s, i) \in RevSep /\ RevAt(s, i + 1) THEN i + 1
         ELSE 0, LAMBDA p :
    IF p > 0 /\ (p + 3 > Len(s) \/ Ch(s, p + 3) \in RevSep)
    THEN [found |-> TRUE, start |-> i, stop |-> p + 2, digits |-> ""]
    ELSE NoMatch)

\* EMBEDDED_REV.search(s) from position i: the leftmost match
EMBEDDED_REV_search(s, i) ==
    With(FirstIdx(LAMBDA k : EMBEDDED_REV_at(s, k).found, i, Len(s)), LAMBDA j :
    IF j = 0 THEN NoMatch ELSE EMBEDDED_REV_at(s, j))

\* the captured digits taken as they are, without upper(), 'O' -> '0' and [:2]:
\* a faulty variant of NormDigits
RawDigits(raw) == raw

\* raw.upper().replace('O', '0')[:2]
RECURSIVE OToZero(_)
OToZero(raw) ==
    IF raw = "" THEN ""
    ELSE (IF UpperOf(Ch(raw, 1)) = "O" THEN "0" ELSE UpperOf(Ch(raw, 1))) \o OToZero(From(raw, 2))
NormDigits(raw) == Upto(OToZero(raw), 2)

\* EMBEDDED_REV.sub(_strip_embedded, s) from position i: the text left, and the
\* digits of the last token removed ("" when none was removed)
RECURSIVE EmbeddedSub(_, _, _)
EmbeddedSub(s, i, captured) ==
    With(EMBEDDED_REV_search(s, i), LAMBDA m :
    IF ~m.found THEN [s |-> From(s, i), captured |-> captured]
    ELSE With(EmbeddedSub(s, m.stop + 1, NormDigits(m.digits)), LAMBDA rest :
         [s |-> Slice(s, i, m.start - 1) \o rest.s, captured |-> rest.captured]))

\* ORPHAN_EMBEDDED_REV.sub("", s) from position i
RECURSIVE OrphanSub(_, _)
OrphanSub(s, i) ==
    With(FirstIdx(LAMBDA k : ORPHAN_EMBEDDED_REV_at(s, k).found, i, Len(s)), LAMBDA j :
    IF j = 0 THEN From(s, i)
    ELSE Slice(s, i, j - 1) \o OrphanSub(s, ORPHAN_EMBEDDED_REV_at(s, j).stop + 1))

\* returns [s |-> the trailing text without the revision, rev, notes]
extract_rev(trailing, notes) ==
    With(RStrip(trailing, Whitespace), LAMBDA s :
    With(TrailingDotAfterRev(s), LAMBDA had_trailing_dot_after_rev :
    With(CANON_REV_SUFFIX_search(s), LAMBDA m_canon :
    With(REV_ANY_INFIX_search(s), LAMBDA m_end :
    With(EmbeddedSub(s, 1, ""), LAMBDA emb :
    With(IF emb.s = s THEN OrphanSub(s, 1) ELSE emb.s, LAMBDA s2 :
    With(NormDigits(m_end.digits), LAMBDA endDigits :
    With(IF m_end.found
         THEN [s |-> RStrip(Upto(s, m_end.start - 1), RStripSet),
               captured |-> endDigits,
               notes |-> (IF endDigits # m_end.digits
                          THEN Append(notes, "Corrected letter 'O' to digit '0' in revision.")
                          ELSE notes) \o <<"Normalized revision element.">>]
         ELSE [s |-> RStrip(s2, RStripSet),
               captured |-> emb.captured,
               notes |-> IF s2 # s                                   \* saw_embedded
                         THEN notes \o <<"Removed embedded revision token from title.",
                                         "Normalized revision element.">>
                         ELSE notes], LAMBDA st :
    With(IF st.captured = ""
         THEN Append(st.notes, "Added Rev0 (missing revision element).")
         ELSE st.notes, LAMBDA n1 :
    IF m_canon.found
    THEN [s |-> RStrip(Upto(s, m_canon.start - 1), RStripSet),
          rev |-> "Rev" \o Upto(m_canon.digits, 2), notes |-> notes]
    ELSE [s |-> st.s,
          rev |-> "Rev" \o (IF st.captured = "" THEN "0" ELSE st.captured),
          notes |-> IF /\ had_trailing_dot_after_rev
                       /\ ~InNotes(n1, "Removed extra period after revision element.")
                    THEN Append(n1, "Removed extra period after revision element.")
                    ELSE n1])))))))))

-----------------------------------------------------------------------------
(* Length budget enforcer and name assembler *)

\* id_part = "" stands for None and for the empty identifier alike: the code
\* tests "if id_part"
enforce_stem_limit(prefix, id_part, date, title, rev, notes) ==
    LET base == prefix \o "_" \o (IF id_part # "" THEN id_part \o "_" ELSE "") \o date \o "_"
        stem_len == Len(base) + Len(title) + 1 + Len(rev)
        over == stem_len - MAX_CHARS_TOTAL
        keep == IF Len(title) - over > 0 THEN Len(title) - over ELSE 0
    IN  IF stem_len > MAX_CHARS_TOTAL
        THEN [s |-> Upto(title, keep),
              notes |-> Append(notes, "File name exceeds 64-character limit (title truncated).")]
        ELSE [s |-> title, notes |-> notes]

\* "_".join(parts) alone, without MULTI_UNDERS and TRAILING_UNDERS: a faulty
\* variant of join_tokens
join_tokens_no_collapse(prefix, id_part, date, title, rev) ==
    JoinFrom(<<prefix>> \o (IF id_part # "" THEN <<id_part>> ELSE <<>>) \o <<date, title, rev>>, "_", 1)

join_tokens(prefix, id_part, date, title, rev) ==
    LET parts == <<prefix>> \o (IF id_part # "" THEN <<id_part>> ELSE <<>>) \o <<date, title, rev>>
    IN  TRAILING_UNDERS_sub(MULTI_UNDERS_sub(JoinFrom(parts, "_", 1)))

underscores_ok(stem, has_id) == CountChar(stem, "_") = (IF has_id THEN 4 ELSE 3)

postprocess_before_ext(stem, notes) ==
    With(IF EndsWith(stem, "_")
         THEN [s |-> RStrip(stem, {"_"}),
               notes |-> IF ~InNotes(notes, "Removed trailing underscore before extension.")
                         THEN Append(notes, "Removed trailing underscore before extension.")
                         ELSE notes]
         ELSE [s |-> stem, notes |-> notes], LAMBDA a :
    IF EndsWith(a.s, ".")
    THEN [s |-> RStrip(a.s, {"."}),
          notes |-> IF ~InNotes(a.notes, "Removed extra period after revision element.")
                    THEN Append(a.notes, "Removed extra period after revision element.")
                    ELSE a.notes]
    ELSE a)

-----------------------------------------------------------------------------
(* Core audit.  A result is the tuple (suggestion, notes, changed) of the   *)
(* source as a record; isNone = TRUE stands for the suggestion None.        *)
(* audit_filename runs in steps (prologue, family dispatch, and the three   *)
(* steps of its closure finalize); what a step hands to the next is the     *)
(* record built here.                                                       *)

Result(suggestion, notes, changed) ==
    [isNone |-> FALSE, suggestion |-> suggestion, notes |-> notes, changed |-> changed]
SkipResult == [isNone |-> TRUE, suggestion |-> "", notes |-> <<>>, changed |-> FALSE]

\* a None argument handed back as None with the issues, where the source
\* returns the empty string: a faulty variant of assemble_decision
assemble_decision_keeps_none(suggested, isNone, issues) ==
    [isNone |-> isNone, suggestion |-> suggested, notes |-> issues, changed |-> TRUE]

\* assemble_decision(suggested_or_none, issues); isNone tells a None argument
assemble_decision(suggested, isNone, issues) ==
    IF \E i \in 1..Len(issues) : HasSub(issues[i], "Does not follow CTA")
    THEN Result("", issues, TRUE)
    ELSE IF isNone THEN Result("", issues, TRUE)
    ELSE Result(suggested, issues, TRUE)

\* issues.append(...) for each of more, then return assemble_decision(None, issues)
Reject(issues, more) == [returns |-> TRUE, result |-> assemble_decision("", TRUE, issues \o more)]

\* return finalize(prefix, id_part, date_token, title_raw, hard_rev): the call,
\* with the issues recorded so far; "" stands for an id_part or a hard_rev
\* that is None
CallFinalize(prefix, id_part, date_token, title_raw, hard_rev, issues) ==
    [returns |-> FALSE, prefix |-> prefix, id_part |-> id_part, date_token |-> date_token,
     title_raw |-> title_raw, hard_rev |-> hard_rev, issues |-> issues]

\* SPACE_BEFORE_EXT.search(name): \s+\.[A-Za-z0-9]+$
SPACE_BEFORE_EXT_search(name) ==
    With(RunBack(name, Len(name), AlnumDash \ {"-"}), LAMBDA e :
    /\ e >= 1
    /\ Ch(name, Len(name) - e) = "."
    /\ Ch(name, Len(name) - e - 1) \in Whitespace)

\* re.match(r"^[A-Z]{2,4}$", prefix)
IsPrefix(prefix) == Len(prefix) \in 2..4 /\ AllIn(prefix, UpperCh)

\* the closure need_date: the date, and the issues with the repair note added
need_date(tok, issues) ==
    With(try_normalize_date(tok), LAMBDA dn :
    IF tok = "" THEN [d |-> "", ok |-> FALSE, issues |-> issues]
    ELSE [d |-> dn.d, ok |-> dn.ok,
          issues |-> IF dn.ok /\ dn.note # "" THEN Append(issues, dn.note) ELSE issues])

\* rest[i] if len(rest) > i else None, with i counted from 1 and None as ""
TokOrNone(rest, i) == IF Len(rest) >= i THEN rest[i] ELSE ""

\* index of the first token of rest that parses as a date, 0 when none does
FirstDateFrom(rest, i) ==
    FirstIdx(LAMBDA k : rest[k] # "" /\ try_normalize_date(rest[k]).ok, i, Len(rest))

InvalidDate == <<"Invalid or missing date.", TERMINAL_NOTE>>

\* the date looked for in the first token only, without the scan: a faulty
\* variant of AuditCOR
AuditCORDateFirst(prefix, rest, issues) ==
    With(need_date(rest[1], issues), LAMBDA d0 :
    IF ~d0.ok THEN Reject(d0.issues, InvalidDate)
    ELSE CallFinalize(prefix, "", d0.d, JoinFrom(rest, "_", 2), "", d0.issues))

AuditCOR(prefix, rest, issues) ==
    With(FirstDateFrom(rest, 1), LAMBDA idx_date :
    IF idx_date = 0 THEN Reject(issues, InvalidDate)
    ELSE With(need_date(rest[idx_date], issues), LAMBDA nd :
         CallFinalize(prefix, "", nd.d, JoinFrom(rest, "_", idx_date + 1), "",
                      IF idx_date # 1
                      THEN Append(nd.issues, "Removed non-date token(s) before date.")
                      ELSE nd.issues)))

\* the shape shared by QA (after its date-first case), AU and REQUIRES_ID_ANY:
\* identifier, then date, then title
AuditIdThenDate(prefix, rest, issues, label) ==
    With(sanitize_id_any(rest[1], issues, label), LAMBDA idp :
    With(need_date(rest[2], idp.notes), LAMBDA d1 :
    IF ~d1.ok THEN Reject(d1.issues, InvalidDate)
    ELSE CallFinalize(prefix, idp.s, d1.d, JoinFrom(rest, "_", 3), "", d1.issues)))

AuditQA(prefix, rest, issues) ==
    IF Len(rest) = 0 THEN Reject(issues, <<TERMINAL_NOTE>>)
    ELSE With(need_date(rest[1], issues), LAMBDA d0 :
         IF d0.ok
         THEN CallFinalize(prefix, "", d0.d, JoinFrom(rest, "_", 2), "", d0.issues)
         ELSE IF Len(rest) < 2
              THEN Reject(sanitize_id_any(rest[1], issues, "QMS-ID").notes, <<TERMINAL_NOTE>>)
         ELSE AuditIdThenDate(prefix, rest, issues, "QMS-ID"))

AuditAU(prefix, rest, issues) ==
    IF Len(rest) < 2 THEN Reject(issues, <<"Missing Audit-ID.", TERMINAL_NOTE>>)
    ELSE With(need_date(rest[1], issues), LAMBDA d0 :
         IF d0.ok
         THEN Reject(d0.issues,
                     <<"Missing Audit-ID before date. Expected AU_[Audit-ID]_[Date]_[Title]_Rev##.",
                       TERMINAL_NOTE>>)
         ELSE AuditIdThenDate(prefix, rest, issues, "Audit-ID"))

AuditFDM(prefix, rest, issues) ==
    With(FirstDateFrom(rest, 1), LAMBDA date_idx :
    IF date_idx = 0 THEN Reject(issues, <<"Missing TaskID/ContractID and/or date.", TERMINAL_NOTE>>)
    ELSE With(need_date(rest[date_idx], issues), LAMBDA nd :
         IF date_idx = 1
         THEN Reject(nd.issues, <<"Missing TaskID/ContractID and/or date.", TERMINAL_NOTE>>)
         ELSE With(sanitize_id_any(rest[1], nd.issues, "ID"), LAMBDA id1 :
              With(IF date_idx > 2 THEN sanitize_id_any(rest[2], id1.notes, "ID")
                   ELSE [s |-> "", notes |-> id1.notes], LAMBDA id2 :
              CallFinalize(prefix,
                           IF id1.s # "" /\ id2.s # "" THEN id1.s \o "-" \o id2.s
                           ELSE id1.s \o id2.s,
                           nd.d, JoinFrom(rest, "_", date_idx + 1), "", id2.notes)))))

\* REQUIRES_ID_ANY branch
AuditIdAny(prefix, rest, issues) ==
    LET lbl == ID_LABEL(prefix) IN
    IF Len(rest) < 2
    THEN Reject(issues, <<"Missing " \o lbl \o " and/or date.", TERMINAL_NOTE>>)
    ELSE With(need_date(rest[1], issues), LAMBDA d0 :
         IF d0.ok
         THEN Reject(d0.issues,
                     <<"Missing " \o lbl \o " before date. Expected " \o prefix \o "_[" \o lbl
                         \o "]_[Date]_[Title]_Rev##.",
                       TERMINAL_NOTE>>)
         ELSE AuditIdThenDate(prefix, rest, issues, lbl))

\* TF handled as any other family of REQUIRES_ID_ANY, the override left out:
\* a faulty variant of AuditTF
AuditTFNoOverride(prefix, rest, issues) == AuditIdAny(prefix, rest, issues)

\* the revision after the date never looked at, always the default "0": a
\* faulty variant of TFDigits
TFDigitsDefault(trailing) == "0"

\* TF override, case 2: the digits of the revision found after the date
TFDigits(trailing) ==
    With(REV_ANY_INFIX_search(trailing), LAMBDA m1 :
    With(IF m1.found THEN m1 ELSE EMBEDDED_REV_search(trailing, 1), LAMBDA m :
    With(IF m.found THEN m.digits ELSE "0", LAMBDA digits :
    IF digits # "" THEN NormDigits(digits) ELSE "0")))

AuditTF(prefix, rest, issues) ==
    IF Len(rest) = 0 THEN Reject(issues, <<TERMINAL_NOTE>>)
    ELSE With(need_date(rest[1], issues), LAMBDA d0 :
         With(need_date(TokOrNone(rest, 2), issues), LAMBDA d1 :
         IF d0.ok
         THEN CallFinalize(prefix, "", d0.d, JoinFrom(rest, "_", 2), "",
                           Append(d0.issues, "No FormID provided -- allowed for TF."))
         ELSE IF d1.ok
              THEN CallFinalize(prefix, "", d1.d, rest[1],
                                "Rev" \o TFDigits(IF Len(rest) > 2 THEN JoinFrom(rest, "_", 3) ELSE ""),
                                d1.issues \o <<"Reinterpreted first token as Title -- missing FormID allowed for TF.",
                                               "Normalized revision element.">>)
         ELSE AuditIdAny(prefix, rest, issues)))

\* REQUIRES_CSI branch: its rejections carry no terminal note
AuditCsiRequired(prefix, rest, issues) ==
    IF Len(rest) < 2 THEN Reject(issues, <<"Missing CSI section.">>)
    ELSE With(need_date(rest[1], issues), LAMBDA d_datefirst :
         With(normalize_csi(rest[1]), LAMBDA c :
         With(need_date(rest[2], IF c.note # "" THEN Append(issues, c.note) ELSE issues), LAMBDA d1 :
         IF d_datefirst.ok THEN Reject(d_datefirst.issues, <<"Missing CSI section.">>)
         ELSE IF ~c.ok
              THEN Reject(issues, <<"Invalid CSI-Section (require NN-NN-NN or NN-NN-NN-NN).">>)
         ELSE IF ~d1.ok THEN Reject(d1.issues, <<"Invalid or missing date.">>)
         ELSE CallFinalize(prefix, c.csi, d1.d, JoinFrom(rest, "_", 3), "", d1.issues))))

\* PN, SP and WR: optional CSI; dateFirstNote is WR's note ("" for PN and SP)
AuditCsiOptional(prefix, rest, issues, dateFirstNote) ==
    IF Len(rest) = 0 THEN Reject(issues, <<TERMINAL_NOTE>>)
    ELSE With(need_date(rest[1], issues), LAMBDA d0 :
         With(normalize_csi(rest[1]), LAMBDA c :
         With(need_date(TokOrNone(rest, 2), issues), LAMBDA d1 :
         IF d0.ok
         THEN CallFinalize(prefix, "", d0.d, JoinFrom(rest, "_", 2), "",
                           IF dateFirstNote # "" THEN Append(d0.issues, dateFirstNote)
                           ELSE d0.issues)
         ELSE IF c.ok
              THEN IF ~d1.ok THEN Reject(d1.issues, InvalidDate)
                   ELSE CallFinalize(prefix, c.csi, d1.d, JoinFrom(rest, "_", 3), "",
                                     IF c.note # "" THEN Append(d1.issues, c.note) ELSE d1.issues)
         ELSE Reject(issues, <<TERMINAL_NOTE>>))))

\* RE and the STANDARD_PREFIXES: date, then title
AuditNoId(prefix, rest, issues) ==
    IF Len(rest) = 0 /\ prefix = "RE" THEN Reject(issues, <<TERMINAL_NOTE>>)
    ELSE With(need_date(TokOrNone(rest, 1), issues), LAMBDA d0 :
         IF ~d0.ok THEN Reject(d0.issues, InvalidDate)
         ELSE CallFinalize(prefix, "", d0.d, JoinFrom(rest, "_", 2), "", d0.issues))

\* the chain of "if prefix ..." of audit_filename, in its order
Dispatch(prefix, rest, issues) ==
    IF prefix = "COR" THEN AuditCOR(prefix, rest, issues)
    ELSE IF prefix = "QA" THEN AuditQA(prefix, rest, issues)
    ELSE IF prefix = "AU" THEN AuditAU(prefix, rest, issues)
    ELSE IF prefix = "FDM" THEN AuditFDM(prefix, rest, issues)
    ELSE IF prefix = "TF" THEN AuditTF(prefix, rest, issues)
    ELSE IF prefix \in REQUIRES_ID_ANY THEN AuditIdAny(prefix, rest, issues)
    ELSE IF prefix \in REQUIRES_CSI THEN AuditCsiRequired(prefix, rest, issues)
    ELSE IF prefix \in {"PN", "SP"} THEN AuditCsiOptional(prefix, rest, issues, "")
    ELSE IF prefix = "WR"
         THEN AuditCsiOptional(prefix, rest, issues,
                               "No CSI provided -- allowed for overall warranty.")
    ELSE IF prefix = "RE" THEN AuditNoId(prefix, rest, issues)
    ELSE IF prefix \in STANDARD_PREFIXES THEN AuditNoId(prefix, rest, issues)
    ELSE Reject(issues, <<TERMINAL_NOTE>>)

\* the positions of rest (counted from 1) that the branch taken for prefix
\* reads by subscript, rest[0] and rest[1] in the source; loops and slices
\* read no position that is not there
IdAnySubscripts(rest) ==
    IF Len(rest) < 2 THEN {}
    ELSE IF try_normalize_date(rest[1]).ok THEN {1} ELSE {1, 2}

RestSubscripts(prefix, rest) ==
    IF prefix \in {"COR", "FDM"} THEN {}
    ELSE IF prefix = "QA"
         THEN IF Len(rest) = 0 THEN {}
              ELSE IF try_normalize_date(rest[1]).ok \/ Len(rest) < 2 THEN {1} ELSE {1, 2}
    ELSE IF prefix = "AU" THEN IdAnySubscripts(rest)
    ELSE IF prefix = "TF"
         THEN IF Len(rest) = 0 THEN {}
              ELSE IF try_normalize_date(rest[1]).ok THEN {1}
              ELSE IF Len(rest) > 1
                   THEN IF try_normalize_date(rest[2]).ok THEN {1, 2}
                        ELSE {1, 2} \cup IdAnySubscripts(rest)
              ELSE {1} \cup IdAnySubscripts(rest)
    ELSE IF prefix \in REQUIRES_ID_ANY THEN IdAnySubscripts(rest)
    ELSE IF prefix \in REQUIRES_CSI
         THEN IF Len(rest) < 2 THEN {}
              ELSE IF try_normalize_date(rest[1]).ok \/ ~normalize_csi(rest[1]).ok THEN {1}
              ELSE {1, 2}
    ELSE IF prefix \in {"PN", "SP", "WR"}
         THEN IF Len(rest) = 0 THEN {}
              ELSE IF try_normalize_date(rest[1]).ok \/ ~normalize_csi(rest[1]).ok THEN {1}
              ELSE IF Len(rest) > 1 THEN {1, 2} ELSE {1}
    ELSE IF prefix = "RE" THEN IF Len(rest) = 0 THEN {} ELSE {1}
    ELSE IF prefix \in STANDARD_PREFIXES THEN IF Len(rest) # 0 THEN {1} ELSE {}
    ELSE {}

\* equality with an exemption prefix in place of startswith: a faulty variant
\* of IsIgnored
IsIgnoredExact(original) == \E i \in 1..Len(IGNORE_PREFIXES) : original = IGNORE_PREFIXES[i]

IsIgnored(original) == \E i \in 1..Len(IGNORE_PREFIXES) : StartsWith(original, IGNORE_PREFIXES[i])

\* audit_filename up to the family dispatch: either it returns, or it hands
\* over prefix, rest, issues, ext and original
Prologue(name) ==
    With(Strip(name), LAMBDA original :
    With(IF SPACE_BEFORE_EXT_search(name)
         THEN <<"Removed space before file extension.">> ELSE <<>>, LAMBDA issues0 :
    With(RFindFrom(original, ".", Len(original)), LAMBDA dot :
    With(IF dot > 0 THEN Upto(original, dot - 1) ELSE original, LAMBDA stem0 :
    With(HasSub(stem0, "__"), LAMBDA doubled :
    With(IF doubled THEN Append(issues0, "Removed double underscore.") ELSE issues0, LAMBDA issues :
    With(SplitTokens(IF doubled THEN MULTI_UNDERS_sub(stem0) ELSE stem0), LAMBDA tokens :
    IF original = "" THEN [returns |-> TRUE, result |-> Result("", <<"Empty value">>, TRUE)]
    ELSE IF IsIgnored(original) THEN [returns |-> TRUE, result |-> SkipResult]
    ELSE IF Len(tokens) < 2 THEN Reject(issues, <<TERMINAL_NOTE>>)
    ELSE IF ~IsPrefix(tokens[1]) THEN Reject(issues, <<TERMINAL_NOTE>>)
    ELSE [returns |-> FALSE, prefix |-> tokens[1], rest |-> Tail(tokens), issues |-> issues,
          ext |-> IF dot > 0 THEN From(original, dot) ELSE "", original |-> original])))))))

\* finalize after extract_rev and sanitize_title: the length budget, the join,
\* the underscore count and the trailing clean-up
FinalizeAssemble(prefix, id_part, date_token, title, rev, issues, ext, original) ==
    With(Drop(id_part, {"_"}), LAMBDA id_clean :
    With(enforce_stem_limit(prefix, id_clean, date_token, title, rev, issues), LAMBDA u :
    With(join_tokens(prefix, id_clean, date_token, u.s, rev), LAMBDA suggested_stem :
    With(postprocess_before_ext(suggested_stem,
             IF ~underscores_ok(suggested_stem, id_clean # "")
             THEN Append(u.notes, "Unexpected underscore count after normalization (check for missing title or extra separators).")
             ELSE u.notes), LAMBDA pp :
    Result(pp.s \o ext, pp.notes, pp.s \o ext # original)))))

-----------------------------------------------------------------------------
(* Bounds and inputs *)

LongLen == 60        \* length of the long title and of the long identifier
MaxPasses == 1       \* how often a suggestion is audited again
MaxRows == 2         \* rows of a sheet

\* n copies of c
RECURSIVE Rep(_, _)
Rep(c, n) ==
    IF n = 0 THEN ""
    ELSE IF n % 2 = 0 THEN LET h == Rep(c, n \div 2) IN h \o h
    ELSE c \o Rep(c, n - 1)

PrefixPool == {"COR", "QA", "AU", "FDM", "TF", "SOP", "CA", "PN", "WR", "RE", "LG", "PE", "XYZ"}
FirstPool == {"20240101", "1/5/2024", "A12", "a!b", "03-07-08", "030708", "12-3", "SiteMap"}
SecondPool == {"20240310", "2024-01-15", "Title", "b!"}
TailPool == {"", ".pdf", "_T.pdf", "_Rev02.pdf", "_Site Visit_Rev1.pdf"}
GrammarNames ==
    {p \o "_" \o a \o "_" \o b \o t : p \in PrefixPool, a \in FirstPool, b \in SecondPool, t \in TailPool}

TitlePool ==
    {"", "Title", "Site Visit", "A&B", "Reportpdfpdfpdf", "a.pdf", "Trevo", "pd f", "x-", "T_U",
     "final.docx.v2"}
RevPool == {"", "_Rev1", "_Rev02", " rev-3", ".Rev.O1", "_Rev", "_Rev1.", "_Rev1_x"}
ExtPool == {"", ".pdf", " .PDF"}
TitleNames ==
    {p \o "_20240101_" \o t \o v \o e : p \in {"COR", "TF"}, t \in TitlePool, v \in RevPool, e \in ExtPool}

\* the room a COR name with a one-digit revision leaves for the title:
\* "COR_20240101_" and "_Rev1" fill the rest of the budget
TitleRoom == MAX_CHARS_TOTAL - Len("COR_20240101_") - Len("_Rev1")
LongNames ==
    {"COR_20240101_" \o Rep("A", LongLen) \o "_Rev1.pdf",
     "COR_20240101_" \o Rep("A", LongLen),
     "SOP_" \o Rep("A", LongLen) \o "_20240101_T_Rev1.pdf",
     "CA_03-07-08_20240101_" \o Rep("A", LongLen) \o "_Rev12.pdf",
     "TF_" \o Rep("A", LongLen) \o "_20240310_Rev02.pdf",
     \* titles that the cut to the budget ends with a dash, and with an extension token
     "COR_20240101_" \o Rep("A", TitleRoom - 1) \o "-" \o Rep("B", 10) \o "_Rev1.pdf",
     "COR_20240101_" \o Rep("A", TitleRoom - 3) \o "pdf" \o Rep("B", 10) \o "_Rev1.pdf"}

IgnoredNames ==
    {l \o IGNORE_PREFIXES[i] \o j : l \in {"", " "}, i \in 1..Len(IGNORE_PREFIXES),
                                   j \in {"", "_invoice_0001.pdf", " x .pdf", "__a__b", "_20240101_T_Rev1.pdf"}}

OddNames ==
    {"", "   ", "TF", "TF_", "_TF_20240101", "RE.pdf", "COR__20240101__T__Rev1.pdf",
     "COR_a_b_20240101_c_Rev1.pdf", "FDM_a!_b!_20240101_T_Rev1.pdf",
     "COR_01/15/2024_Site_Visit_Notes.pdf", "CA_03-07-08_20240101_Inspection_Rev2.docx",
     "TF_SiteMap_20240310_Rev02.pdf", "XYZ_20240101_Something.pdf", "I-PAY_invoice_0001.pdf",
     "SOP_2024.0101_20240102_T_Rev1.pdf", "TF_Rev5_20240310.pdf", "QA_!!_20240101_T_Rev1.pdf",
     "CA_20240101_T_Rev1.pdf", "CA_0307_20240101_T_Rev1.pdf", "CA_03-07-08_x_T_Rev1.pdf", "CA_x.pdf",
     "TF_SiteMap_20240310_rev O2.pdf", "TF_Site Map_20240310_x_Rev7_y.pdf",
     "_", "___", ".pdf", "a", "tf_20240101_T", "TF_.", "COR_x", "QA_x", "AU_x", "FDM_x", "TF_x",
     "SOP_x", "PN_03-07-08", "WR_x", "RE_x", "LG_x", "LG_.pdf", "COR_2024/13/45_T",
     "COR_202400230_T", "COR_99/99/2024", "COR_20240101_a..b_Rev1.pdf", "COR_20240101_.x_Rev1.pdf",
     "CA_03-0708_20240101_T_Rev1.pdf", "CA_0307-0809_20240101_T_Rev1.pdf",
     "CA_03.07.08_20240101_T_Rev1.pdf", "CA_03-07-08-09_20240101_T_Rev1.pdf",
     "CA_03-07-0_20240101_T_Rev1.pdf", "PN_03-0708_20240101_T_Rev1.pdf", "WR_03070809_20240101_T.pdf",
     "COR_20240101 _T_Rev1.pdf", "COR_2024/1/5_T_Rev1.pdf", "COR_13/45/2024_T_Rev1.pdf",
     "COR_202400229_T_Rev1.pdf", "SOP_A_202400229_T.pdf", "COR_x_2024-01-15 _T_Rev1.pdf"}

Inputs == GrammarNames \cup TitleNames \cup LongNames \cup IgnoredNames \cup OddNames

-----------------------------------------------------------------------------
(* audit_filename as a process *)

NoResult == [isNone |-> FALSE, suggestion |-> "", notes |-> <<>>, changed |-> FALSE]
EmptyFrame ==
    [prefix |-> "", rest |-> <<>>, issues |-> <<>>, ext |-> "", original |-> "",
     id_part |-> "", date_token |-> "", title_raw |-> "", hard_rev |-> "", title |-> "", rev |-> ""]

\* from the entry of audit_filename to the family dispatch
Audit_Prologue ==
    /\ pc = "call"
    /\ \E p \in {Prologue(original_name)} :
       IF p.returns
       THEN /\ result' = p.result
            /\ pc' = "done"
            /\ fr' = fr
       ELSE /\ fr' = [fr EXCEPT !.prefix = p.prefix, !.rest = p.rest, !.issues = p.issues,
                                !.ext = p.ext, !.original = p.original]
            /\ pc' = "dispatch"
            /\ result' = result
    /\ UNCHANGED <<original_name, previous, pass, driverVars>>

\* the family rules: a rejection, or the call of finalize
Audit_Dispatch ==
    /\ pc = "dispatch"
    /\ \E q \in {Dispatch(fr.prefix, fr.rest, fr.issues)} :
       IF q.returns
       THEN /\ result' = q.result
            /\ pc' = "done"
            /\ fr' = fr
       ELSE /\ fr' = [fr EXCEPT !.id_part = q.id_part, !.date_token = q.date_token,
                                !.title_raw = q.title_raw, !.hard_rev = q.hard_rev,
                                !.issues = q.issues]
            /\ pc' = "extract_rev"
            /\ result' = result
    /\ UNCHANGED <<original_name, previous, pass, driverVars>>

\* finalize: title_no_rev, rev_norm = extract_rev(title_raw, issues); rev = hard_rev or rev_norm
Finalize_ExtractRev ==
    /\ pc = "extract_rev"
    /\ \E x \in {extract_rev(fr.title_raw, fr.issues)} :
       fr' = [fr EXCEPT !.title = x.s,
                        !.rev = IF fr.hard_rev # "" THEN fr.hard_rev ELSE x.rev,
                        !.issues = x.notes]
    /\ pc' = "sanitize_title"
    /\ UNCHANGED <<original_name, result, previous, pass, driverVars>>

\* finalize: title = sanitize_title(title_no_rev, issues)
Finalize_SanitizeTitle ==
    /\ pc = "sanitize_title"
    /\ \E t \in {sanitize_title(fr.title, fr.issues)} :
       fr' = [fr EXCEPT !.title = t.s, !.issues = t.notes]
    /\ pc' = "assemble"
    /\ UNCHANGED <<original_name, result, previous, pass, driverVars>>

\* finalize: the length budget, the join, the checks, and the return
Finalize_Assemble ==
    /\ pc = "assemble"
    /\ result' = FinalizeAssemble(fr.prefix, fr.id_part, fr.date_token, fr.title, fr.rev,
                                  fr.issues, fr.ext, fr.original)
    /\ pc' = "done"
    /\ UNCHANGED <<original_name, fr, previous, pass, driverVars>>

\* the suggestion of an audit is audited again
ReAudit ==
    /\ pc = "done"
    /\ pass < MaxPasses
    /\ ~result.isNone
    /\ result.suggestion # ""
    /\ previous' = result
    /\ original_name' = result.suggestion
    /\ pass' = pass + 1
    /\ pc' = "call"
    /\ fr' = EmptyFrame
    /\ result' = NoResult
    /\ UNCHANGED driverVars

AuditStep ==
    \/ Audit_Prologue
    \/ Audit_Dispatch
    \/ Finalize_ExtractRev
    \/ Finalize_SanitizeTitle
    \/ Finalize_Assemble

-----------------------------------------------------------------------------
(* The row loop of write_results_inline_dynamic *)

DOT_CHAR == "(dot)"          \* the bullet character the source colours by font

\* safe_str of a cell that holds text ("" also stands for an empty cell)
safe_str(x) == Strip(x)

Blank == [written |-> FALSE, value |-> ""]
Written(v) == [written |-> TRUE, value |-> v]
BlankRow == [changed |-> Blank, status |-> Blank, newname |-> Blank, notes |-> Blank]
ZeroStats == [noncompliant |-> 0, compliant |-> 0, empty_files |-> 0, skipped_files |-> 0]

RowFiles ==
    {"", "PCO_x.pdf", " I-PAY_invoice_0001.pdf ", "COR_20240101_T_Rev1.pdf",
     "COR_01/15/2024_Site_Visit_Notes.pdf", "XYZ_20240101_Something.pdf",
     "TF_20240101_T_Rev1.pdf"}
RowCompanies == {"", "Acme"}
RowPool == {[file |-> f, company |-> c] : f \in RowFiles, c \in RowCompanies}
\* find_last_row ends the range at the last row whose file-name cell is not blank
Sheets ==
    {s \in UNION {[1..n -> RowPool] : n \in 1..MaxRows} : safe_str(s[Len(s)].file) # ""}

\* bump without "company or 'Unknown'": a row without company is left out of
\* the per-company tallies; a faulty variant of Bumped
BumpedNamedOnly(company, key) ==
    IF company = "" THEN by_company
    ELSE [k \in DOMAIN by_company \cup {company} |->
             IF k = company
             THEN [(IF company \in DOMAIN by_company THEN by_company[company] ELSE ZeroStats)
                      EXCEPT ![key] = @ + 1]
             ELSE by_company[k]]

\* stats[key] += 1; bump(company, key)
Bumped(company, key) ==
    LET c == IF company = "" THEN "Unknown" ELSE company
        d == IF c \in DOMAIN by_company THEN by_company[c] ELSE ZeroStats
    IN  [k \in DOMAIN by_company \cup {c} |->
            IF k = c THEN [d EXCEPT ![key] = @ + 1] ELSE by_company[k]]
Count(key) ==
    /\ stats' = [stats EXCEPT ![key] = @ + 1]
    /\ by_company' = Bumped(safe_str(rows[r].company), key)

InLoop == pc = "row" /\ r >= 1 /\ r <= Len(rows)

\* a row whose file name is blank
Row_Empty ==
    /\ InLoop
    /\ safe_str(rows[r].file) = ""
    /\ cells' = [cells EXCEPT ![r] = [@ EXCEPT !.changed = Written(DOT_CHAR),
                                               !.status = Written("Needs Changes"),
                                               !.notes = Written("Empty value")]]
    /\ Count("empty_files")
    /\ r' = r + 1
    /\ UNCHANGED <<rows, auditVars>>

\* a row whose file name starts with an exemption prefix
Row_Ignored ==
    /\ InLoop
    /\ \E filename \in {safe_str(rows[r].file)} :
          filename # "" /\ IsIgnored(filename)
    /\ cells' = [cells EXCEPT ![r] = [@ EXCEPT !.changed = Written(DOT_CHAR)]]
    /\ Count("skipped_files")
    /\ r' = r + 1
    /\ UNCHANGED <<rows, auditVars>>

\* any other row: audit_filename(filename) is called
Row_Call ==
    /\ InLoop
    /\ \E filename \in {safe_str(rows[r].file)} :
          /\ filename # "" /\ ~IsIgnored(filename)
          /\ original_name' = filename
    /\ cells' = [cells EXCEPT ![r] = [@ EXCEPT !.changed = Written(DOT_CHAR)]]
    /\ pc' = "call"
    /\ fr' = EmptyFrame
    /\ UNCHANGED <<rows, r, stats, by_company, result, previous, pass>>

\* audit_filename has returned: the row's cells and counters
Row_Return ==
    /\ pc = "done" /\ r >= 1 /\ r <= Len(rows)
    /\ \E filename \in {safe_str(rows[r].file)} :
       \E renamed \in {result.suggestion # "" /\ result.suggestion # filename} :
       \E needs_attention \in {result.notes # <<>> \/ renamed} :
           IF result.isNone
           THEN /\ Count("skipped_files")
                /\ cells' = cells
           ELSE /\ cells' = [cells EXCEPT ![r] =
                      [@ EXCEPT !.status = Written(IF needs_attention THEN "Needs Changes" ELSE "OK"),
                                !.newname = Written(IF renamed THEN result.suggestion ELSE ""),
                                !.notes = Written(JoinFrom(result.notes, "; ", 1))]]
                /\ Count(IF needs_attention THEN "noncompliant" ELSE "compliant")
    /\ r' = r + 1
    /\ pc' = "row"
    /\ UNCHANGED <<rows, original_name, fr, result, previous, pass>>

NoSheet ==
    /\ rows = <<>>
    /\ r = 0
    /\ cells = <<>>
    /\ stats = ZeroStats
    /\ by_company = <<>>

Init ==
    /\ original_name \in Inputs
    /\ pc = "call"
    /\ fr = EmptyFrame
    /\ result = NoResult
    /\ previous = NoResult
    /\ pass = 0
    /\ NoSheet

Next == AuditStep \/ ReAudit

\* audit_filename applied to each input, and again to what it suggests
Spec == Init /\ [][Next]_vars

DriverInit ==
    /\ rows \in Sheets
    /\ r = 1
    /\ cells = [i \in 1..Len(rows) |-> BlankRow]
    /\ stats = ZeroStats
    /\ by_company = <<>>
    /\ pc = "row"
    /\ original_name = ""
    /\ fr = EmptyFrame
    /\ result = NoResult
    /\ previous = NoResult
    /\ pass = 0

DriverNext == Row_Empty \/ Row_Ignored \/ Row_Call \/ AuditStep \/ Row_Return

\* the row loop over every sheet of at most MaxRows rows
DriverSpec == DriverInit /\ [][DriverNext]_vars

-----------------------------------------------------------------------------
(* Properties of audit_filename, stated on the states where it has returned *)

Returned == pc = "done"
\* the decisions of a returned result
Skip == Returned /\ result.isNone
EmptyInput == Returned /\ Strip(original_name) = ""
Assembled == Returned /\ ~result.isNone /\ result.suggestion # ""
NonCompliant == Returned /\ ~result.isNone /\ result.suggestion = "" /\ Strip(original_name) # ""

\* the suggestion without the extension
Stem == Upto(result.suggestion, Len(result.suggestion) - Len(fr.ext))
\* the identifier finalize joins into the name ("" when there is none)
Identifier == Drop(fr.id_part, {"_"})
\* the title finalize joins into the name, after the length budget
FinalTitle == enforce_stem_limit(fr.prefix, Identifier, fr.date_token, fr.title, fr.rev, fr.issues).s
ExpectedUnderscores == IF Identifier # "" THEN 4 ELSE 3
LastSegment(stem) == From(stem, RFindFrom(stem, "_", Len(stem)) + 1)
IsRevToken(t) == Len(t) \in {4, 5} /\ Upto(t, 3) = "Rev" /\ AllIn(From(t, 4), Digit)
NoDuplicates(notes) == \A i, j \in 1..Len(notes) : i # j => notes[i] # notes[j]
LastNote(notes) == IF notes = <<>> THEN "" ELSE notes[Len(notes)]

TruncationNote == "File name exceeds 64-character limit (title truncated)."
UnderscoreNote ==
    "Unexpected underscore count after normalization (check for missing title or extra separators)."

\* C1: whenever a suggestion is assembled, its stem is at most MAX_CHARS_TOTAL
\* (64) characters long.  The code truncates the title only, so a long
\* identifier leaves the stem over the budget.
C1_StemWithinBudget == Assembled => Len(Stem) <= MAX_CHARS_TOTAL

\* C1, the failing case: the title was truncated to nothing and the stem is
\* still longer than the budget
C1_StemOverBudget ==
    /\ Assembled
    /\ InNotes(result.notes, TruncationNote)
    /\ FinalTitle = ""
    /\ Len(Stem) > MAX_CHARS_TOTAL

\* C2 as stated: whenever a suggestion is assembled, its stem has exactly 3
\* underscores without an identifier and exactly 4 with one, an empty title
\* included.
C2_ExactUnderscoresAlways == Assembled => CountChar(Stem, "_") = ExpectedUnderscores

\* C2 amended: whenever a suggestion is assembled, its stem has exactly 3
\* underscores (no identifier) or 4 (identifier) when the title joined into it
\* is not empty, and then the underscore-count note is absent; when that title
\* is empty the stem has one underscore fewer and the note is present.
C2_UnderscoresUnlessEmptyTitle ==
    Assembled =>
        IF FinalTitle # ""
        THEN /\ CountChar(Stem, "_") = ExpectedUnderscores
             /\ ~InNotes(result.notes, UnderscoreNote)
        ELSE /\ CountChar(Stem, "_") = ExpectedUnderscores - 1
             /\ InNotes(result.notes, UnderscoreNote)

\* C2, its case: a name with nothing but a revision marker after the date and
\* no identifier is assembled with two underscores and the note
C2_EmptyTitleAssembled ==
    /\ Assembled
    /\ fr.title_raw # "" /\ FinalTitle = "" /\ Identifier = ""
    /\ CountChar(Stem, "_") = 2
    /\ InNotes(result.notes, UnderscoreNote)

\* C3: when the first audit assembled a suggestion without truncating the
\* title, the audit of that suggestion returns the same suggestion with no
\* notes.
C3_Idempotent ==
    (Returned /\ pass >= 1 /\ ~InNotes(previous.notes, TruncationNote)) =>
        /\ ~result.isNone
        /\ result.suggestion = previous.suggestion
        /\ result.notes = <<>>

\* C3, the failing case: the second audit of an untruncated TF suggestion
\* without FormID returns it unchanged and still with the TF note
C3_SecondAuditNotes ==
    /\ Returned /\ pass = 1 /\ ~InNotes(previous.notes, TruncationNote)
    /\ result.suggestion = previous.suggestion
    /\ result.suggestion = original_name
    /\ fr.prefix = "TF"
    /\ result.notes = <<"No FormID provided -- allowed for TF.">>

\* C4: whenever a suggestion is assembled, the last underscore-delimited
\* segment of its stem is Rev followed by one or two digits, on every family
\* path.
C4_RevisionLast == Assembled => IsRevToken(LastSegment(Stem))

\* C4, its case: the TF path that supplies its own revision has assembled a
\* suggestion from a revision written with the letter O
C4_TFOwnRevision ==
    /\ Assembled
    /\ fr.prefix = "TF" /\ fr.hard_rev # "" /\ fr.rev = fr.hard_rev
    /\ HasSub(original_name, "O2")
    /\ LastSegment(Stem) = "Rev02"

\* C5: every NonCompliant result has the empty suggestion and a notes list
\* that ends with the terminal note.
C5_TerminalNoteLast == NonCompliant => LastNote(result.notes) = TERMINAL_NOTE

\* C5, the failing case: a rejection of a CSI-required family without the
\* terminal note
C5_CsiRejectionWithoutTerminal ==
    /\ NonCompliant
    /\ fr.prefix \in REQUIRES_CSI
    /\ ~InNotes(result.notes, TERMINAL_NOTE)

\* the identifier and the date the digits-and-dashes family would read from
\* the first two tokens after the prefix
DigitsDashesId == sanitize_id_digits_dashes(fr.rest[1], <<>>, "ID")
SecondTokenDate == try_normalize_date(fr.rest[2])

\* C6: for a prefix of REQUIRES_ID_DIGITS_DASHES, a name whose first token
\* after the prefix is no date and sanitizes to digits and dashes beginning
\* with a digit, and whose second token is a date, is assembled, with that
\* identifier between prefix and date.
C6_DigitsDashesAssembled ==
    (/\ Returned
     /\ fr.prefix \in REQUIRES_ID_DIGITS_DASHES
     /\ Len(fr.rest) >= 2
     /\ ~try_normalize_date(fr.rest[1]).ok
     /\ DigitsDashesId.ok
     /\ SecondTokenDate.ok) =>
        /\ Assembled
        /\ StartsWith(result.suggestion,
                      fr.prefix \o "_" \o DigitsDashesId.s \o "_" \o SecondTokenDate.d \o "_")

\* C6, the failing case: PE with the identifier 12-3 and a date is rejected
\* with the terminal note alone
C6_DigitsDashesRejected ==
    /\ NonCompliant
    /\ fr.prefix = "PE" /\ fr.rest[1] = "12-3" /\ SecondTokenDate.ok
    /\ result.notes = <<TERMINAL_NOTE>>

\* the TF override, case 2: the first token after TF is not a date, the second is
TFReinterpreted ==
    /\ Returned
    /\ fr.prefix = "TF"
    /\ Len(fr.rest) >= 2
    /\ ~try_normalize_date(fr.rest[1]).ok
    /\ try_normalize_date(fr.rest[2]).ok
\* the tokens after the date, joined
TFTrailing == IF Len(fr.rest) > 2 THEN JoinFrom(fr.rest, "_", 3) ELSE ""
\* two digits without their leading zero
NoLeadingZero(d) == IF Len(d) = 2 /\ Ch(d, 1) = "0" THEN From(d, 2) ELSE d
TFNotes ==
    /\ InNotes(result.notes, "Reinterpreted first token as Title -- missing FormID allowed for TF.")
    /\ InNotes(result.notes, "Normalized revision element.")
    /\ ~InNotes(result.notes, "No FormID provided -- allowed for TF.")

\* C7 as stated: on the TF reinterpretation path the suggestion is
\* TF_<date>_<sanitized first token>_Rev<n> with n the digits found after the
\* date without a leading zero; TF_SiteMap_20240310_Rev02.pdf gives
\* TF_20240310_SiteMap_Rev2.pdf.
C7_LeadingZeroDropped ==
    TFReinterpreted =>
        /\ result.suggestion =
               "TF_" \o try_normalize_date(fr.rest[2]).d \o "_" \o sanitize_title(fr.rest[1], <<>>).s
                     \o "_Rev" \o NoLeadingZero(TFDigits(TFTrailing)) \o fr.ext
        /\ TFNotes
        /\ (original_name = "TF_SiteMap_20240310_Rev02.pdf"
               => result.suggestion = "TF_20240310_SiteMap_Rev2.pdf")

\* C7 amended: on the TF reinterpretation path the suggestion is
\* TF_<date>_<title>_Rev<n>, where the title is the first token with its
\* revision markers removed, sanitized and cut to the length budget (it is left
\* out with its underscore when empty), and n is the one or two digits found
\* after the date as written, leading zero kept and O read as 0, or 0 when
\* there are none; the notes hold the two TF notes and not the no-FormID note.
\* TF_SiteMap_20240310_Rev02.pdf gives TF_20240310_SiteMap_Rev02.pdf, and
\* TF_SiteMap_20240310.pdf gives TF_20240310_SiteMap_Rev0.pdf.
C7_DigitsAsWritten ==
    TFReinterpreted =>
        /\ fr.title = sanitize_title(extract_rev(fr.rest[1], <<>>).s, <<>>).s
        /\ result.suggestion =
               "TF_" \o try_normalize_date(fr.rest[2]).d
                     \o (IF FinalTitle = "" THEN "" ELSE "_" \o FinalTitle)
                     \o "_Rev" \o TFDigits(TFTrailing) \o fr.ext
        /\ TFNotes
        /\ (original_name = "TF_SiteMap_20240310_Rev02.pdf"
               => result.suggestion = "TF_20240310_SiteMap_Rev02.pdf")
        /\ (original_name = "TF_SiteMap_20240310.pdf"
               => result.suggestion = "TF_20240310_SiteMap_Rev0.pdf")

\* C7, its case: the name of the example has been audited on the
\* reinterpretation path and its revision is Rev02
C7_SiteMapExample ==
    /\ TFReinterpreted
    /\ original_name = "TF_SiteMap_20240310_Rev02.pdf"
    /\ fr.hard_rev = "Rev02"
    /\ Assembled

\* C8: no note occurs twice in the notes of one call.
C8_NoDuplicateNotes == Returned => NoDuplicates(result.notes)

\* C8, the failing case: a title with several extension tokens gets the
\* extension note from both passes of sanitize_title
C8_ExtensionNoteTwice ==
    /\ Returned
    /\ \E i, j \in 1..Len(result.notes) :
          /\ i < j
          /\ result.notes[i] = "Removed extra extension token from title."
          /\ result.notes[j] = "Removed extra extension token from title."

\* C9: a name that starts, after trimming, with an exemption prefix yields
\* Skip: no suggestion and no notes, whatever else the name holds.
C9_ExemptionSkips ==
    (/\ Returned
     /\ \E i \in 1..Len(IGNORE_PREFIXES) : StartsWith(Strip(original_name), IGNORE_PREFIXES[i])) =>
        result = SkipResult

\* C9, its case: an exempt name with a space before its extension and a
\* surrounding blank has been skipped
C9_ExemptWithSpaceBeforeExt ==
    /\ Skip
    /\ SPACE_BEFORE_EXT_search(original_name)
    /\ Ch(original_name, 1) = " "
    /\ result.notes = <<>>

-----------------------------------------------------------------------------
(* Properties of the row loop *)

\* the rows the loop has passed whose file name starts with an exemption prefix
ExemptRowsPassed ==
    {i \in 1..Len(rows) :
        /\ i < r
        /\ \E k \in 1..Len(IGNORE_PREFIXES) : StartsWith(safe_str(rows[i].file), IGNORE_PREFIXES[k])}

\* C10: the loop writes none of the four audit cells of a row whose file name
\* starts with an exemption prefix.
C10_ExemptRowsUntouched == \A i \in ExemptRowsPassed : cells[i] = BlankRow

\* C10, the failing case: an exempt row is passed with its 'File Name OK' cell
\* written and its other cells untouched
C10_ExemptRowDotWritten ==
    \E i \in ExemptRowsPassed :
        /\ cells[i].changed = Written(DOT_CHAR)
        /\ cells[i].status = Blank /\ cells[i].newname = Blank /\ cells[i].notes = Blank

-----------------------------------------------------------------------------
(* Further properties of audit_filename *)

\* the five decisions, read off the returned triple
DecEmpty == ~result.isNone /\ result.suggestion = "" /\ result.notes = <<"Empty value">>
DecSkip == result.isNone /\ result.notes = <<>> /\ ~result.changed
DecNonCompliant ==
    /\ ~result.isNone /\ result.suggestion = "" /\ result.changed
    /\ result.notes # <<>> /\ result.notes # <<"Empty value">>
DecCompliant ==
    /\ ~result.isNone /\ result.suggestion # "" /\ result.suggestion = Strip(original_name)
    /\ result.notes = <<>> /\ ~result.changed
DecNeedsChanges ==
    /\ ~result.isNone /\ result.suggestion # ""
    /\ (result.suggestion # Strip(original_name) \/ result.notes # <<>>)
    /\ (result.changed <=> result.suggestion # Strip(original_name))
Decisions == <<DecEmpty, DecSkip, DecNonCompliant, DecCompliant, DecNeedsChanges>>

\* C11: audit_filename is total: the family rules subscript only tokens of
\* rest that exist (there is always at least one), so no step raises, and
\* what the call returns is exactly one of Empty, Skip, Compliant,
\* NeedsChanges and NonCompliant.
C11_Total ==
    /\ pc = "dispatch" =>
           /\ Len(fr.rest) >= 1
           /\ RestSubscripts(fr.prefix, fr.rest) \subseteq 1..Len(fr.rest)
    /\ Returned => Cardinality({i \in 1..5 : Decisions[i]}) = 1

\* C11, its case: a malformed name with a single token after the prefix of a
\* family that wants two has been rejected without reading the second
C11_SingleTokenRejected ==
    /\ Returned
    /\ fr.prefix \in REQUIRES_ID_ANY \cup REQUIRES_CSI \cup {"AU", "TF"}
    /\ Len(fr.rest) = 1
    /\ DecNonCompliant
\* C12: when the first audit truncated the title to the budget, the audit of
\* its suggestion returns the identical suggestion.  The title is cut at a
\* fixed length, whatever character then ends it, so the second audit can
\* remove more.
C12_TruncatedFixedPoint ==
    (Returned /\ pass >= 1 /\ InNotes(previous.notes, TruncationNote)) =>
        /\ ~result.isNone
        /\ result.suggestion = previous.suggestion

\* C12, the failing case: the cut left an extension token at the end of the
\* title, and the second audit removes it and suggests a shorter name
C12_CutExposesExtension ==
    /\ Returned /\ pass = 1 /\ InNotes(previous.notes, TruncationNote)
    /\ HasSub(previous.suggestion, "Apdf_Rev1")
    /\ Assembled
    /\ Len(result.suggestion) = Len(previous.suggestion) - 3
    /\ InNotes(result.notes, "Removed extra extension token from title.")
\* the texts the two passes of strip_spurious_extensions in sanitize_title
\* test for a trailing extension token: the text after the regex substitution
FirstPassEnd(raw) == ExtSubFrom(raw, 1)
SecondPassEnd(raw) ==
    ExtSubFrom(Keep(Replace(strip_spurious_extensions(raw, <<>>).s, "&", "and"), AlnumDash), 1)

\* C13: audit_filename is deterministic.  Its only source of variation is the
\* order in which the loop over the set EXT_TOKENS meets the tokens a text
\* ends with: no token ends with another one, so every text the two passes
\* test ends with at most one token and every order removes the same one;
\* and a call repeated on the same name returns the same triple.
C13_Deterministic ==
    /\ \A a, b \in EXT_TOKENS : a # b => ~EndsWith(b, a)
    /\ pc = "sanitize_title" =>
           /\ Cardinality(EndTokens(FirstPassEnd(fr.title))) <= 1
           /\ Cardinality(EndTokens(SecondPassEnd(fr.title))) <= 1
    /\ (Returned /\ pass >= 1 /\ ~previous.changed) => result = previous

\* C13, its case: a title that ends with an extension token is about to be
\* sanitized, and exactly one token of the set matches its end
C13_OneEndToken ==
    /\ pc = "sanitize_title"
    /\ Cardinality(EndTokens(FirstPassEnd(fr.title))) = 1
    /\ sanitize_title(fr.title, <<>>).s # fr.title
\* the notes of sanitize_title that name one transformation
SpecificTitleNotes ==
    {"Removed extra extension token from title.", "Replaced '&' with 'and' in title.",
     "Removed spaces from title.", "Removed internal underscores from title.",
     "Removed special characters from title."}
\* what the call of sanitize_title in finalize is about to return, and the
\* notes it adds to those recorded before
TitleCall == sanitize_title(fr.title, fr.issues)
TitleNotesAdded == SubSeq(TitleCall.notes, Len(fr.issues) + 1, Len(TitleCall.notes))

\* C15: sanitize_title adds the generic note 'Normalized title.' exactly when
\* the title changed overall and it recorded none of its specific notes for
\* that title.  The code adds it whenever the title changed.
C15_GenericOnlyWithoutSpecific ==
    pc = "sanitize_title" =>
        (InNotes(TitleNotesAdded, "Normalized title.")
            <=> /\ TitleCall.s # fr.title
                /\ \A i \in 1..Len(TitleNotesAdded) : TitleNotesAdded[i] \notin SpecificTitleNotes)

\* C15, the failing case: a title with '&' gets the note of the replacement
\* and the generic note after it
C15_GenericAfterSpecific ==
    /\ pc = "sanitize_title"
    /\ TitleNotesAdded = <<"Replaced '&' with 'and' in title.", "Normalized title.">>

\* the families whose first token after the prefix is read as a CSI section
CsiFamilies == REQUIRES_CSI \cup {"PN", "SP", "WR"}
CsiToken == Strip(fr.rest[1])
CsiDigits == Keep(CsiToken, Digit)
CsiRead == normalize_csi(fr.rest[1])
HyphenationNote == "Corrected malformed CSI hyphenation"

\* C16: normalize_csi returns a canonical token unchanged without note;
\* repairs a token of 6 or 8 digits with the hyphenation note when it
\* contains a hyphen and with the auto-format note when it does not; and
\* fails on any other digit count.  The code tests the digit count before the
\* hyphen, so the hyphenation note is never returned.
C16_RepairNoteByKind ==
    (fr.prefix \in CsiFamilies /\ Len(fr.rest) >= 1 /\ CsiToken # "") =>
        IF CanonicalCsi(CsiToken)
        THEN CsiRead = [csi |-> CsiToken, ok |-> TRUE, note |-> ""]
        ELSE IF Len(CsiDigits) \in {6, 8}
             THEN /\ CsiRead.ok
                  /\ CsiRead.csi = (IF Len(CsiDigits) = 6 THEN Csi6(CsiDigits) ELSE Csi8(CsiDigits))
                  /\ CsiRead.note = (IF HasChar(CsiToken, "-") THEN HyphenationNote
                                     ELSE IF Len(CsiDigits) = 6 THEN "Auto-formatted CSI from 6 digits"
                                     ELSE "Auto-formatted CSI from 8 digits")
        ELSE ~CsiRead.ok

\* C16, the failing case: a CSI section with a misplaced hyphen and 6 digits
\* has been repaired and the name assembled with the auto-format note
C16_HyphenatedAutoFormatted ==
    /\ Assembled
    /\ fr.prefix \in REQUIRES_CSI
    /\ HasChar(CsiToken, "-") /\ ~CanonicalCsi(CsiToken) /\ Len(CsiDigits) = 6
    /\ InNotes(result.notes, "Auto-formatted CSI from 6 digits")
    /\ ~InNotes(result.notes, HyphenationNote)

\* a TF name that reaches the generic identifier path: neither the first nor
\* the second token after TF is a date
TFGeneric ==
    /\ Returned
    /\ fr.prefix = "TF"
    /\ Len(fr.rest) >= 1
    /\ ~try_normalize_date(fr.rest[1]).ok
    /\ ~try_normalize_date(TokOrNone(fr.rest, 2)).ok

DateNotes ==
    {"Normalized date from YYYY-MM-DD", "Normalized date from M/D/YYYY",
     "Normalized date from YYYY/M/D", "Normalized date from malformed token (dropped stray 0)."}
\* the token the date of an assembled name was read from: in every family the
\* first token after the prefix that parses as a date
DateSource == fr.rest[FirstDateFrom(fr.rest, 1)]
EightDigits(s) == Len(s) = 8 /\ AllIn(s, Digit)
DateNotesOf(notes) == {i \in 1..Len(notes) : notes[i] \in DateNotes}

\* C18: in every assembled suggestion the date is exactly 8 digits, read from
\* the date token; one repair note, the one of the token's format, is
\* recorded when the token was not already 8 digits and none when it was; and
\* a 9-digit token is accepted only when dropping its fifth digit, a zero,
\* leaves a calendar-valid date.  The code trims the token first and does so
\* without a note.
C18_DateEightDigitsNoted ==
    Assembled =>
        /\ EightDigits(fr.date_token)
        /\ fr.date_token = try_normalize_date(DateSource).d
        /\ StartsWith(Stem, fr.prefix \o "_" \o (IF Identifier = "" THEN "" ELSE Identifier \o "_")
                                       \o fr.date_token)
        /\ IF EightDigits(DateSource)
           THEN DateNotesOf(result.notes) = {}
           ELSE /\ Cardinality(DateNotesOf(result.notes)) = 1
                /\ InNotes(result.notes, try_normalize_date(DateSource).note)
        /\ Len(Strip(DateSource)) = 9 =>
               /\ Ch(Strip(DateSource), 5) = "0"
               /\ ValidDate(StrToNat(Upto(fr.date_token, 4)), StrToNat(Slice(fr.date_token, 5, 6)),
                            StrToNat(Slice(fr.date_token, 7, 8)))

\* C18, the failing case: a date token of 8 digits and a blank is trimmed to
\* the date, and the changed name is suggested without any note
C18_PaddedDateSilent ==
    /\ Assembled
    /\ ~EightDigits(DateSource) /\ EightDigits(Strip(DateSource))
    /\ result.notes = <<>>
    /\ result.changed

\* prefix, identifier and date of an assembled stem, as joined
StemHead == fr.prefix \o "_" \o (IF Identifier = "" THEN "" ELSE Identifier \o "_") \o fr.date_token

\* C19: in every assembled suggestion the title, the text between the date
\* and the final revision segment, holds only ASCII letters, digits and
\* dashes, after both passes of the extension stripping and after the cut to
\* the budget.
C19_TitleAlphabet ==
    Assembled =>
        /\ AllIn(FinalTitle, AlnumDash)
        /\ Stem = StemHead \o (IF FinalTitle = "" THEN "" ELSE "_" \o FinalTitle) \o "_" \o fr.rev

\* C19, its case: a title with a period inside has been sanitized and joined
\* into the suggestion without it
C19_PeriodRemoved ==
    /\ Assembled
    /\ HasChar(fr.title_raw, ".")
    /\ InNotes(result.notes, "Removed special characters from title.")
    /\ FinalTitle # ""

\* the first token after COR that parses as a date (0: there is none)
CorDateIdx == FirstDateFrom(fr.rest, 1)
NonDateNote == "Removed non-date token(s) before date."

\* C20: for COR the date is the normalization of the first token after the
\* prefix that parses as a date, the title is built from the tokens after it
\* only, the note about removed tokens is recorded exactly when that token is
\* not the first one, and the name is NonCompliant exactly when no token
\* parses as a date.
C20_CorFirstDate ==
    (Returned /\ fr.prefix = "COR") =>
        /\ NonCompliant <=> CorDateIdx = 0
        /\ CorDateIdx # 0 =>
               /\ Assembled
               /\ fr.date_token = try_normalize_date(fr.rest[CorDateIdx]).d
               /\ fr.title_raw = JoinFrom(fr.rest, "_", CorDateIdx + 1)
               /\ fr.title = sanitize_title(extract_rev(fr.title_raw, <<>>).s, <<>>).s
               /\ StartsWith(Stem, "COR_" \o fr.date_token)
               /\ InNotes(result.notes, NonDateNote) <=> CorDateIdx # 1
        /\ original_name = "COR_01/15/2024_Site_Visit_Notes.pdf" =>
               result.suggestion = "COR_20240115_SiteVisitNotes_Rev0.pdf"

\* C20, its case: a COR name with two tokens before its date has been
\* assembled from the date and the tokens after it, with the note
C20_TokensBeforeDate ==
    /\ Assembled
    /\ fr.prefix = "COR"
    /\ CorDateIdx = 3
    /\ InNotes(result.notes, NonDateNote)
    /\ result.suggestion = "COR_20240101_c_Rev1.pdf"

-----------------------------------------------------------------------------
(* Further properties of the row loop *)

CounterKeys == {"noncompliant", "compliant", "empty_files", "skipped_files"}
\* the sum of the tallies of key over the companies in S
RECURSIVE CompanySum(_, _)
CompanySum(S, key) ==
    IF S = {} THEN 0
    ELSE With(CHOOSE c \in S : TRUE, LAMBDA c : by_company[c][key] + CompanySum(S \ {c}, key))
\* the rows the loop has counted: those before row r
RowsCounted == r - 1

\* C14: every row the loop has passed has incremented exactly one of the four
\* counters: the four overall counters sum to the number of rows passed, and
\* for each counter the per-company tallies sum to the overall counter.
C14_CountersPartition ==
    /\ stats.noncompliant + stats.compliant + stats.empty_files + stats.skipped_files = RowsCounted
    /\ \A key \in CounterKeys : CompanySum(DOMAIN by_company, key) = stats[key]

\* C14, its case: the loop has finished a sheet of rows of two companies, one
\* of them unnamed, that fall under different counters
C14_TwoCompaniesCounted ==
    /\ pc = "row" /\ r = Len(rows) + 1 /\ r > 2
    /\ DOMAIN by_company = {"Unknown", "Acme"}
    /\ Cardinality({key \in CounterKeys : stats[key] > 0}) = 2
====
